---- MODULE Spec2Model ----
(***************************************************************************)
(* Model of broker/dhan/api/data.py: the Dhan market-data adapter.         *)
(*                                                                         *)
(* One behaviour of the model is one call of an entry point (get_history,  *)
(* get_quotes, get_depth) or of one of BrokerData's helpers, made in a     *)
(* process whose configuration (BROKER_API_KEY, host timezone) is fixed in *)
(* the initial state.  The adapter keeps no state between calls.           *)
(*                                                                         *)
(* Representation                                                          *)
(*   date string "%Y-%m-%d"  : [year, month, day]                          *)
(*   datetime (naive)        : [ord, minute] (proleptic Gregorian ordinal  *)
(*                             as datetime.toordinal(), minute of the day) *)
(*   str                     : sequence of words (punctuation is a word)   *)
(*   exception               : [site, msg, cause]; Str(e) is its message   *)
(*   DataFrame               : [columns, rows]; a row is identified by its *)
(*                             timestamp (the OHLCV cells are copied from  *)
(*                             the broker arrays row by row)               *)
(***************************************************************************)
EXTENDS Integers, Sequences, FiniteSets, TLC

\* ------------------------------------------------------------------ bounds

\* Number of calendar days, from WindowStart, that get_history is called on.
NumDays == 9
\* Longest range (end - start, in days) handed to the helpers directly.
MaxSpan == 14
\* Number of calendar days, from RoundTripStart, handed to _convert_date_to_utc.
RoundTripDays == 70
\* Most candles in one broker chart response.
MaxCandles == 2
\* Most levels the broker supplies on one side of the book.
MaxLevels == 6

\* ------------------------------------------------------- datetime library

MinutesPerDay == 24 * 60

Years == 2023..2025

IsLeap(y) == (y % 4 = 0) /\ ((y % 100 # 0) \/ (y % 400 = 0))

DaysInMonth(y, m) ==
    IF m = 2 THEN (IF IsLeap(y) THEN 29 ELSE 28)
    ELSE IF m \in {4, 6, 9, 11} THEN 30 ELSE 31

DaysBeforeYear(y) ==
    LET p == y - 1 IN p * 365 + (p \div 4) - (p \div 100) + (p \div 400)

RECURSIVE DaysBeforeMonth(_, _)
DaysBeforeMonth(y, m) ==
    IF m = 1 THEN 0 ELSE DaysBeforeMonth(y, m - 1) + DaysInMonth(y, m - 1)

\* date.toordinal()
Ymd2Ord(y, m, d) == DaysBeforeYear(y) + DaysBeforeMonth(y, m) + d

\* date.fromordinal()
Ord2Ymd(n) ==
    LET y == CHOOSE yy \in Years :
                 DaysBeforeYear(yy) < n /\ n <= DaysBeforeYear(yy + 1)
        r == n - DaysBeforeYear(y)
        m == CHOOSE mm \in 1..12 :
                 DaysBeforeMonth(y, mm) < r
                 /\ r <= DaysBeforeMonth(y, mm) + DaysInMonth(y, mm)
    IN  [year |-> y, month |-> m, day |-> r - DaysBeforeMonth(y, m)]

\* datetime.strptime(s, "%Y-%m-%d")
Strptime(s) == [ord |-> Ymd2Ord(s.year, s.month, s.day), minute |-> 0]

\* dt.strftime("%Y-%m-%d"): the time of day is dropped
Strftime(dt) == Ord2Ymd(dt.ord)

\* dt.replace(hour=h, minute=m)
ReplaceTime(dt, h, m) == [ord |-> dt.ord, minute |-> h * 60 + m]

\* dt + timedelta(minutes=k)
AddMinutes(dt, k) ==
    LET total == dt.ord * MinutesPerDay + dt.minute + k
    IN  [ord |-> total \div MinutesPerDay, minute |-> total % MinutesPerDay]

\* dt + timedelta(days=k)
AddDays(dt, k) == AddMinutes(dt, k * MinutesPerDay)

\* dt1 < dt2
DtLess(a, b) == a.ord < b.ord \/ (a.ord = b.ord /\ a.minute < b.minute)

\* min(dt1, dt2)
DtMin(a, b) == IF DtLess(b, a) THEN b ELSE a

\* dt.weekday(): Monday is 0, Sunday is 6
Weekday(dt) == (dt.ord + 6) % 7

\* ---------------------------------------------------------------- strings

\* str.lower(), word by word
LowerWord(w) ==
    CASE w = "Data" -> "data"
      [] w = "APIs" -> "apis"
      [] w = "Please" -> "please"
      [] w = "Dhan's" -> "dhan's"
      [] w = "Authentication" -> "authentication"
      [] w = "Invalid" -> "invalid"
      [] w = "ID" -> "id"
      [] w = "Market" -> "market"
      [] w = "Dhan" -> "dhan"
      [] w = "API" -> "api"
      [] w = "Error" -> "error"
      [] w = "Unknown" -> "unknown"
      [] w = "Instrument" -> "instrument"
      [] w = "Not" -> "not"
      [] w = "Subscribed" -> "subscribed"
      [] w = "Internal" -> "internal"
      [] OTHER -> w

Lower(s) == [i \in 1..Len(s) |-> LowerWord(s[i])]

\* needle in haystack
Contains(haystack, needle) ==
    \E i \in 0..(Len(haystack) - Len(needle)) :
        \A j \in 1..Len(needle) : haystack[i + j] = needle[j]

\* -------------------------------------------------------- optional values

\* Python's None, and a key a dict does not hold; a value that is there is
\* Some(v), read back with Val
None == <<>>
Missing == <<>>
Some(v) == <<v>>
Val(o) == o[1]

\* ------------------------------------------------------------- exceptions

\* Every error of the module is a plain Exception; `site` names the raise
\* statement, `msg` is str(e), `cause` the exception being handled, if any.
Raise(site, msg) == [site |-> site, msg |-> msg, cause |-> <<>>]

Str(e) == e.msg

\* raise Exception(f"<context>: {str(e)}") inside `except Exception as e`
Wrap(site, context, e) ==
    [site |-> site, msg |-> context \o Str(e), cause |-> <<e>>]

\* ------------------------------------------------------- get_api_response

\* error_mapping, lines 50-56
ErrorMappingKeys == {"806", "810", "401", "820", "821"}

ErrorMapping(code) ==
    CASE code = "806" -> <<"Data", "APIs", "not", "subscribed", ".", "Please",
                           "subscribe", "to", "Dhan's", "market", "data",
                           "service", ".">>
      [] code = "810" -> <<"Authentication", "failed", ":", "Invalid",
                           "client", "ID">>
      [] code = "401" -> <<"Invalid", "or", "expired", "access", "token">>
      [] code = "820" -> <<"Market", "data", "subscription", "required">>
      [] code = "821" -> <<"Market", "data", "subscription", "required">>

\* The error message built from a failure envelope's `data`, an ordered
\* mapping code -> message given as a sequence of <<code, message>> pairs.
ApiErrorMsg(error_data) ==
    LET error_code == IF Len(error_data) > 0 THEN error_data[1][1] ELSE "unknown"
        error_message == IF Len(error_data) > 0 THEN error_data[1][2]
                         ELSE <<"Unknown", "error">>
    IN  IF error_code \in ErrorMappingKeys
        THEN ErrorMapping(error_code)
        ELSE <<"Dhan", "API", "Error", error_code, ":">> \o error_message

\* placeholder for the reply of a request that never went on the wire
NoReply == [status |-> "unsent"]

\* placeholder for the error of a call that returned
NoError == Raise("none", <<>>)

\* get_api_response(endpoint, auth, method, payload) when the broker answers
\* `reply`.  Returns [sent, ok, response, error]: `sent` tells whether the
\* request went on the wire, `ok` whether the function returned.
GetApiResponse(client_id, reply) ==
    IF ~client_id
    THEN [sent |-> FALSE, ok |-> FALSE, response |-> NoReply,
          error |-> Raise("client_id", <<"Could", "not", "extract", "client",
                                         "ID", "from", "auth", "token">>)]
    ELSE IF reply.status = "failed"
    THEN [sent |-> TRUE, ok |-> FALSE, response |-> NoReply,
          error |-> Raise("api", ApiErrorMsg(reply.data))]
    ELSE [sent |-> TRUE, ok |-> TRUE, response |-> reply, error |-> NoError]

\* ------------------------------------------------------ BrokerData helpers

\* self.timeframe_map, in insertion order
SupportedIntervals == <<"1m", "5m", "15m", "25m", "1h", "D">>

TimeframeKeys == {SupportedIntervals[i] : i \in 1..Len(SupportedIntervals)}

TimeframeMap(interval) ==
    CASE interval = "1m" -> "1"
      [] interval = "5m" -> "5"
      [] interval = "15m" -> "15"
      [] interval = "25m" -> "25"
      [] interval = "1h" -> "60"
      [] interval = "D" -> "D"

\* timedelta(hours=5, minutes=30)
IstOffsetMinutes == 5 * 60 + 30
IstOffsetSeconds == IstOffsetMinutes * 60

\* _convert_date_to_utc with the market-close anchor forgotten (midnight)
ConvertDateToUtcMidnight(date_str) ==
    Strftime(AddMinutes(Strptime(date_str), 0 - IstOffsetMinutes))

\* _convert_date_to_utc
ConvertDateToUtc(date_str) ==
    LET ist_date == Strptime(date_str)
        ist_datetime == ReplaceTime(ist_date, 15, 30)
        utc_datetime == AddMinutes(ist_datetime, 0 - IstOffsetMinutes)
    IN  Strftime(utc_datetime)

\* _convert_timestamp_to_ist on a host whose zone is host_offset seconds east
\* of UTC: utcfromtimestamp gives the naive UTC wall clock, the offset is
\* added, and naive.timestamp() reads the wall clock as host-local time.
ConvertTimestampToIst(timestamp, host_offset) ==
    LET utc_dt == timestamp
        ist_dt == utc_dt + IstOffsetSeconds
    IN  ist_dt - host_offset

\* the while loop of _get_intraday_chunks
RECURSIVE ChunkLoop(_, _, _)
ChunkLoop(start, end, chunks) ==
    IF DtLess(start, end)
    THEN LET chunk_end == DtMin(AddDays(start, 5), end)
         IN  ChunkLoop(chunk_end, end,
                       Append(chunks, <<Strftime(start), Strftime(chunk_end)>>))
    ELSE chunks

\* _get_intraday_chunks
GetIntradayChunks(start_date, end_date) ==
    ChunkLoop(Strptime(start_date), Strptime(end_date), <<>>)

\* _get_instrument_type; a symbol is the sequence of its segments and
\* `index in symbol` is decided segment by segment
IndexSymbols == {"NIFTY", "BANKNIFTY", "FINNIFTY", "MIDCPNIFTY"}

GetInstrumentType(exchange, symbol) ==
    IF exchange = "NFO"
    THEN IF \E i \in 1..Len(symbol) : symbol[i] \in IndexSymbols
         THEN "FUTIDX" ELSE "FUTSTK"
    ELSE CASE exchange = "NSE" -> "EQUITY"
           [] exchange = "BSE" -> "EQUITY"
           [] exchange = "MCX" -> "FUTCOM"
           [] OTHER -> "EQUITY"

\* _is_trading_day
IsTradingDay(date_str) == Weekday(Strptime(date_str)) < 5

\* while start.weekday() >= 5: start += timedelta(days=1)
RECURSIVE NextWeekday(_)
NextWeekday(dt) == IF Weekday(dt) >= 5 THEN NextWeekday(AddDays(dt, 1)) ELSE dt

\* while end.weekday() >= 5: end -= timedelta(days=1)
RECURSIVE PrevWeekday(_)
PrevWeekday(dt) == IF Weekday(dt) >= 5 THEN PrevWeekday(AddDays(dt, 0 - 1)) ELSE dt

\* _adjust_dates
AdjustDates(start_date, end_date) ==
    <<Strftime(NextWeekday(Strptime(start_date))),
      Strftime(PrevWeekday(Strptime(end_date)))>>

\* exchange_map of get_history, lines 208-213
ExchangeMapKeys == {"NSE", "BSE", "NFO", "MCX"}

ExchangeMap(exchange) ==
    CASE exchange = "NSE" -> Some("NSE_EQ")
      [] exchange = "BSE" -> Some("BSE_EQ")
      [] exchange = "NFO" -> Some("NSE_FNO")
      [] exchange = "MCX" -> Some("MCX_COMM")
      [] OTHER -> None

\* ------------------------------------------------------------ input sets

\* 2024-02-22, a Thursday; the window crosses a weekend, the leap day and
\* the end of the month
WindowStart == Ymd2Ord(2024, 2, 22)

WindowDates == {Ord2Ymd(WindowStart + k) : k \in 0..(NumDays - 1)}

\* start/end pairs handed to _get_intraday_chunks directly
SpanPairs ==
    {<<Ord2Ymd(WindowStart + a), Ord2Ymd(WindowStart + a + k)>> :
        a \in 0..6, k \in (0 - 2)..MaxSpan}

\* 2023-12-25 onwards: crosses the end of a year and a leap day
RoundTripStart == Ymd2Ord(2023, 12, 25)

RoundTripDates == {Ord2Ymd(RoundTripStart + k) : k \in 0..(RoundTripDays - 1)}

Intervals == TimeframeKeys \cup {"3m"}

Exchanges == ExchangeMapKeys \cup {"CDS"}

Symbols == {<<"RELIANCE">>, <<"NIFTY", "28MAR24", "FUT">>}

\* what get_token returns: the broker's security id, or None
Tokens == {None, Some("1333")}

\* zone offsets of the host, seconds east of UTC (UTC, Asia/Kolkata)
HostOffsets == {0, IstOffsetSeconds}

\* broker candle timestamps (UTC epoch seconds): 2024-02-26 03:45 and 03:46
TsSet == {1708919100, 1708919160}

RECURSIVE SeqsUpTo(_, _)
SeqsUpTo(S, n) ==
    IF n = 0 THEN {<<>>}
    ELSE LET shorter == SeqsUpTo(S, n - 1)
         IN  shorter \cup {Append(q, x) : q \in shorter, x \in S}

\* chart responses: parallel arrays, one entry per candle
ChartReplies ==
    {[status |-> "success", timestamp |-> q] : q \in SeqsUpTo(TsSet, MaxCandles)}

\* failure envelopes: {"status": "failed", "data": {code: message}}
FailReplies ==
    {[status |-> "failed", data |-> <<<<c, <<"Internal", "server", "error">>>>>>] :
        c \in ErrorMappingKeys \cup {"999"}}
    \cup {[status |-> "failed",
           data |-> <<<<"999", <<"Instrument", "Not", "Subscribed">>>>>>],
          [status |-> "failed", data |-> <<>>]}

\* the order book the broker holds; a response carries a prefix of each side
BuyBook == [i \in 1..MaxLevels |-> [price |-> 1000 - i, quantity |-> 10 * i]]
SellBook == [i \in 1..MaxLevels |-> [price |-> 1000 + i, quantity |-> 5 * i]]

Depths ==
    {Missing} \cup
    {Some([buy |-> SubSeq(BuyBook, 1, nb), sell |-> SubSeq(SellBook, 1, ns)]) :
        nb \in 0..MaxLevels, ns \in 0..MaxLevels}

\* data[exchange_type][security_id] of a quote response; a key the broker
\* left out is Missing, and the dict with every key missing is {}
QuoteDatas ==
    {[last_price |-> Missing, last_quantity |-> Missing, volume |-> Missing,
      oi |-> Missing, ohlc |-> Missing, depth |-> d] : d \in Depths}
    \cup
    {[last_price |-> Some(1001), last_quantity |-> Some(7),
      volume |-> Some(5000), oi |-> Some(30),
      ohlc |-> Some([open |-> Some(990), high |-> Some(1010),
                     low |-> Some(985), close |-> Some(995)]),
      depth |-> d] : d \in Depths}

QuoteReplies == {[status |-> "success", data |-> qd] : qd \in QuoteDatas}

RepliesFor(has_key, S) == IF has_key THEN S ELSE {NoReply}

\* ----------------------------------------------------------------- state

VARIABLES
    has_client_id,  \* os.getenv('BROKER_API_KEY') is set
    host_offset,    \* zone offset of the host (seconds east of UTC)
    pc,             \* position of the call in progress
    call,           \* the call's arguments
    lookups,        \* what each get_token lookup returned, in order
    requests,       \* requests sent to the broker, in order
    quote_reply,    \* the broker's answer to the market-feed request, if sent
    loc,            \* get_history's locals
    chunk_log,      \* per intraday chunk: what became of its request
    all_candles,    \* get_history's all_candles (timestamps, host-converted)
    result,         \* the value returned, or None
    raised          \* the exception raised to the caller, or None

vars == <<has_client_id, host_offset, pc, call, lookups, requests, quote_reply, loc,
          chunk_log, all_candles, result, raised>>

env == <<has_client_id, host_offset>>

Init ==
    /\ has_client_id \in BOOLEAN
    /\ host_offset \in HostOffsets
    /\ pc = "idle"
    /\ call = [op |-> "none"]
    /\ lookups = <<>>
    /\ requests = <<>>
    /\ quote_reply = None
    /\ loc = None
    /\ chunk_log = <<>>
    /\ all_candles = <<>>
    /\ result = None
    /\ raised = None

\* ------------------------------------------------------------- DataFrame

Columns == <<"timestamp", "open", "high", "low", "close", "volume">>

\* pd.DataFrame(columns=[...])
EmptyFrame == [columns |-> Columns, rows |-> <<>>]

RECURSIVE InsertSorted(_, _)
InsertSorted(sorted, x) ==
    IF sorted = <<>> THEN <<x>>
    ELSE IF x < Head(sorted) THEN <<x>> \o sorted
    ELSE <<Head(sorted)>> \o InsertSorted(Tail(sorted), x)

\* df.sort_values('timestamp')
RECURSIVE SortValues(_)
SortValues(rows) ==
    IF rows = <<>> THEN <<>>
    ELSE InsertSorted(SortValues(SubSeq(rows, 1, Len(rows) - 1)), rows[Len(rows)])

\* df.drop_duplicates(subset=['timestamp']) (keep='first')
RECURSIVE DropDuplicates(_)
DropDuplicates(rows) ==
    IF rows = <<>> THEN <<>>
    ELSE LET init == DropDuplicates(SubSeq(rows, 1, Len(rows) - 1))
             last == rows[Len(rows)]
         IN  IF \E i \in 1..Len(init) : init[i] = last THEN init
             ELSE Append(init, last)

\* lines 316-322 with the drop_duplicates call left out
ToFrameNoDedup(candles) ==
    IF candles = <<>> THEN EmptyFrame
    ELSE [columns |-> Columns, rows |-> SortValues(candles)]

\* lines 316-322 without the df.empty branch: pd.DataFrame([]) has no columns
ToFrameNoColumns(candles) ==
    [columns |-> IF candles = <<>> THEN <<>> ELSE Columns,
     rows |-> DropDuplicates(SortValues(candles))]

\* lines 316-322: all_candles to the returned DataFrame
ToFrame(candles) ==
    IF candles = <<>> THEN EmptyFrame
    ELSE [columns |-> Columns, rows |-> DropDuplicates(SortValues(candles))]

\* ----------------------------------------------------------- get_history

RECURSIVE JoinComma(_)
JoinComma(q) ==
    IF Len(q) <= 1 THEN q ELSE <<Head(q), ",">> \o JoinComma(Tail(q))

HistoryContext == <<"Error", "fetching", "historical", "data", ":">>
QuotesContext == <<"Error", "fetching", "quotes", ":">>
DepthContext == <<"Error", "fetching", "market", "depth", ":">>

UnsupportedIntervalMsg(interval) ==
    <<"Unsupported", "interval", interval, ".", "Supported", "intervals",
      "are", ":">> \o JoinComma(SupportedIntervals)

\* lines 301-311: the candles of one chart response
Candles(response, offset) ==
    [i \in 1..Len(response.timestamp) |->
        ConvertTimestampToIst(response.timestamp[i], offset)]

\* line 184 with the membership test dropped
IntervalSupportedUnchecked(interval) == TRUE

\* line 184: interval in self.timeframe_map
IntervalSupported(interval) == interval \in TimeframeKeys

\* the caller invokes get_history
HistCall ==
    /\ pc = "idle"
    /\ \E symbol \in Symbols, exchange \in Exchanges, interval \in Intervals,
          start_date \in WindowDates, end_date \in WindowDates :
          call' = [op |-> "get_history", symbol |-> symbol,
                   exchange |-> exchange, interval |-> interval,
                   start_date |-> start_date, end_date |-> end_date]
    /\ pc' = "h_validate"
    /\ UNCHANGED <<env, lookups, requests, quote_reply, loc, chunk_log,
                   all_candles, result, raised>>

\* lines 184-200: interval check, date adjustment, non-trading short-circuit
HistValidate ==
    /\ pc = "h_validate"
    /\ IF ~IntervalSupported(call.interval)
       THEN /\ raised' = Some(Wrap("get_history", HistoryContext,
                              Raise("interval", UnsupportedIntervalMsg(call.interval))))
            /\ pc' = "done"
            /\ UNCHANGED <<loc, result>>
       ELSE LET adjusted == AdjustDates(call.start_date, call.end_date)
                start_date == adjusted[1]
                end_date == adjusted[2]
                end_dt == AddDays(Strptime(end_date), 1)
            IN  /\ loc' = [start_date |-> start_date,
                           end_date |-> end_date,
                           utc_start_date |-> ConvertDateToUtc(start_date),
                           utc_end_date |-> ConvertDateToUtc(Strftime(end_dt))]
                /\ IF ~IsTradingDay(start_date) /\ ~IsTradingDay(end_date)
                   THEN /\ result' = Some(EmptyFrame)
                        /\ pc' = "done"
                   ELSE /\ result' = result
                        /\ pc' = "h_resolve"
                /\ UNCHANGED raised
    /\ UNCHANGED <<env, call, lookups, requests, quote_reply, chunk_log,
                   all_candles>>

\* lines 203-219, 264-266: token lookup, exchange mapping, instrument type
HistResolve ==
    /\ pc = "h_resolve"
    /\ \E security_id \in Tokens :
        /\ lookups' = Append(lookups, security_id)
        /\ IF security_id = None
          THEN /\ raised' = Some(Wrap("get_history", HistoryContext,
                                 Raise("token", <<"Could", "not", "find", "security",
                                                  "ID", "for">> \o call.symbol
                                                \o <<"on", call.exchange>>)))
               /\ pc' = "done"
               /\ UNCHANGED loc
          ELSE IF ExchangeMap(call.exchange) = None
          THEN /\ raised' = Some(Wrap("get_history", HistoryContext,
                                 Raise("exchange", <<"Unsupported", "exchange", ":",
                                                     call.exchange>>)))
               /\ pc' = "done"
               /\ UNCHANGED loc
          ELSE LET chunks == IF call.interval = "D" THEN <<>>
                             ELSE GetIntradayChunks(loc.start_date, loc.end_date)
               IN  /\ loc' = [start_date |-> loc.start_date,
                              end_date |-> loc.end_date,
                              utc_start_date |-> loc.utc_start_date,
                              utc_end_date |-> loc.utc_end_date,
                              security_id |-> Val(security_id),
                              exchange_segment |-> Val(ExchangeMap(call.exchange)),
                              instrument_type |->
                                  GetInstrumentType(call.exchange, call.symbol),
                              date_chunks |-> chunks,
                              next_chunk |-> 1]
                   /\ pc' = IF call.interval = "D" THEN "h_daily" ELSE "h_chunks"
                   /\ UNCHANGED raised
    /\ UNCHANGED <<env, call, requests, quote_reply, chunk_log, all_candles,
                   result>>

\* lines 224-262: the daily request
HistDaily ==
    /\ pc = "h_daily"
    /\ LET request_data ==
               [endpoint |-> "/v2/charts/historical",
                securityId |-> loc.security_id,
                exchangeSegment |-> loc.exchange_segment,
                instrument |-> loc.instrument_type,
                interval |-> Missing,
                fromDate |-> loc.utc_start_date,
                toDate |-> loc.utc_end_date,
                expiryCode |-> IF loc.instrument_type = "EQUITY" THEN Some(0)
                               ELSE Missing]
       IN  \E reply \in RepliesFor(has_client_id, ChartReplies \cup FailReplies) :
              LET out == GetApiResponse(has_client_id, reply)
              IN  /\ requests' = IF out.sent THEN Append(requests, request_data)
                                 ELSE requests
                  /\ IF out.ok
                     THEN /\ all_candles' = all_candles
                                            \o Candles(out.response, host_offset)
                          /\ pc' = "h_return"
                          /\ UNCHANGED raised
                     ELSE /\ raised' = Some(Wrap("get_history", HistoryContext,
                                                  out.error))
                          /\ pc' = "done"
                          /\ UNCHANGED all_candles
    /\ UNCHANGED <<env, call, lookups, quote_reply, loc, chunk_log, result>>

\* lines 312-314 with the error re-raised instead of logged: the outer
\* handler wraps it and the call fails
OnChunkErrorPropagate(e, next_chunk) ==
    [pc |-> "done", next_chunk |-> next_chunk,
     raised |-> Some(Wrap("get_history", HistoryContext, e))]

\* lines 312-314: the error of a chunk is logged and the loop continues
OnChunkError(e, next_chunk) ==
    [pc |-> "h_chunks", next_chunk |-> next_chunk + 1, raised |-> None]

\* lines 268-314: one iteration of the intraday loop
HistChunk ==
    /\ pc = "h_chunks"
    /\ loc.next_chunk <= Len(loc.date_chunks)
    /\ LET chunk == loc.date_chunks[loc.next_chunk]
           chunk_start == chunk[1]
           chunk_end == chunk[2]
           chunk_end_dt == AddDays(Strptime(chunk_end), 1)
           request_data ==
               [endpoint |-> "/v2/charts/intraday",
                securityId |-> loc.security_id,
                exchangeSegment |-> loc.exchange_segment,
                instrument |-> loc.instrument_type,
                interval |-> Some(TimeframeMap(call.interval)),
                fromDate |-> ConvertDateToUtc(chunk_start),
                toDate |-> ConvertDateToUtc(Strftime(chunk_end_dt)),
                expiryCode |-> Missing]
       IN  IF ~IsTradingDay(chunk_start) /\ ~IsTradingDay(chunk_end)
           THEN /\ chunk_log' = Append(chunk_log, [chunk |-> chunk,
                                                   outcome |-> "skipped",
                                                   timestamp |-> <<>>])
                /\ loc' = [loc EXCEPT !.next_chunk = @ + 1]
                /\ UNCHANGED <<pc, requests, all_candles, raised>>
           ELSE \E reply \in RepliesFor(has_client_id, ChartReplies \cup FailReplies) :
                  LET out == GetApiResponse(has_client_id, reply)
                  IN  /\ requests' = IF out.sent THEN Append(requests, request_data)
                                     ELSE requests
                      /\ IF out.ok
                         THEN /\ all_candles' = all_candles
                                       \o Candles(out.response, host_offset)
                              /\ chunk_log' = Append(chunk_log,
                                       [chunk |-> chunk, outcome |-> "ok",
                                        timestamp |-> out.response.timestamp])
                              /\ loc' = [loc EXCEPT !.next_chunk = @ + 1]
                              /\ UNCHANGED <<pc, raised>>
                         ELSE LET next == OnChunkError(out.error, loc.next_chunk)
                              IN  /\ chunk_log' = Append(chunk_log,
                                           [chunk |-> chunk, outcome |-> "error",
                                            timestamp |-> <<>>])
                                  /\ loc' = [loc EXCEPT !.next_chunk = next.next_chunk]
                                  /\ pc' = next.pc
                                  /\ raised' = next.raised
                                  /\ UNCHANGED all_candles
    /\ UNCHANGED <<env, call, lookups, quote_reply, result>>

\* lines 316-324: build, sort and de-duplicate the DataFrame and return it
HistReturn ==
    /\ \/ pc = "h_return"
       \/ pc = "h_chunks" /\ loc.next_chunk > Len(loc.date_chunks)
    /\ result' = Some(ToFrame(all_candles))
    /\ pc' = "done"
    /\ UNCHANGED <<env, call, lookups, requests, quote_reply, loc, chunk_log,
                   all_candles, raised>>

\* -------------------------------------------------- get_quotes, get_depth

\* d.get(key, default)
GetOr(v, default) == IF v = Missing THEN default ELSE Val(v)

\* `not quote_data`: the dict has no key at all
IsEmptyDict(quote_data) ==
    /\ quote_data.last_price = Missing
    /\ quote_data.last_quantity = Missing
    /\ quote_data.volume = Missing
    /\ quote_data.oi = Missing
    /\ quote_data.ohlc = Missing
    /\ quote_data.depth = Missing

EmptyOhlc == [open |-> Missing, high |-> Missing, low |-> Missing, close |-> Missing]

EmptyDepth == [buy |-> <<>>, sell |-> <<>>]

\* int(None), lines 347 and 428
IntOfNone ==
    Raise("int", <<"int()", "argument", "must", "be", "a", "string", ",", "a",
                   "bytes-like", "object", "or", "a", "real", "number", ",",
                   "not", "'NoneType'">>)

\* lines 392 and 498 with the test inverted
IsSubscriptionErrorInverted(e) == ~Contains(Lower(Str(e)), <<"not", "subscribed">>)

\* lines 392 and 498: "not subscribed" in str(e).lower()
IsSubscriptionError(e) == Contains(Lower(Str(e)), <<"not", "subscribed">>)

ZeroQuote ==
    [ltp |-> 0, open |-> 0, high |-> 0, low |-> 0, volume |-> 0, bid |-> 0,
     ask |-> 0, prev_close |-> 0, error |-> Missing]

\* lines 367-389
QuoteOf(quote_data) ==
    LET ohlc == GetOr(quote_data.ohlc, EmptyOhlc)
        depth == GetOr(quote_data.depth, EmptyDepth)
        buy_orders == depth.buy
        sell_orders == depth.sell
    IN  [ltp |-> GetOr(quote_data.last_price, 0),
         open |-> GetOr(ohlc.open, 0),
         high |-> GetOr(ohlc.high, 0),
         low |-> GetOr(ohlc.low, 0),
         volume |-> GetOr(quote_data.volume, 0),
         bid |-> IF buy_orders # <<>> THEN buy_orders[1].price ELSE 0,
         ask |-> IF sell_orders # <<>> THEN sell_orders[1].price ELSE 0,
         prev_close |-> GetOr(ohlc.close, 0),
         error |-> Missing]

\* the loops of lines 460-478 run over the broker's levels instead of range(5)
LevelsUnpadded(orders) ==
    [i \in 1..Len(orders) |->
        [price |-> orders[i].price, quantity |-> orders[i].quantity]]

\* lines 460-467 and 471-478: exactly five levels, zero-padded
Levels(orders) ==
    [i \in 1..5 |->
        IF i <= Len(orders)
        THEN [price |-> orders[i].price, quantity |-> orders[i].quantity]
        ELSE [price |-> 0, quantity |-> 0]]

\* [{'price': 0, 'quantity': 0} for _ in range(5)]
ZeroLevels == [i \in 1..5 |-> [price |-> 0, quantity |-> 0]]

RECURSIVE SumQuantity(_)
SumQuantity(levels) ==
    IF levels = <<>> THEN 0 ELSE Head(levels).quantity + SumQuantity(Tail(levels))

ZeroDepth ==
    [bids |-> ZeroLevels, asks |-> ZeroLevels, ltp |-> 0, ltq |-> 0,
     volume |-> 0, open |-> 0, high |-> 0, low |-> 0, prev_close |-> 0,
     oi |-> 0, totalbuyqty |-> 0, totalsellqty |-> 0, error |-> Missing]

\* lines 451-495
DepthOf(quote_data) ==
    LET depth == GetOr(quote_data.depth, EmptyDepth)
        ohlc == GetOr(quote_data.ohlc, EmptyOhlc)
        bids == Levels(depth.buy)
        asks == Levels(depth.sell)
    IN  [bids |-> bids,
         asks |-> asks,
         ltp |-> GetOr(quote_data.last_price, 0),
         ltq |-> GetOr(quote_data.last_quantity, 0),
         volume |-> GetOr(quote_data.volume, 0),
         open |-> GetOr(ohlc.open, 0),
         high |-> GetOr(ohlc.high, 0),
         low |-> GetOr(ohlc.low, 0),
         prev_close |-> GetOr(ohlc.close, 0),
         oi |-> GetOr(quote_data.oi, 0),
         totalbuyqty |-> SumQuantity(bids),
         totalsellqty |-> SumQuantity(asks),
         error |-> Missing]

\* payload of the /v2/marketfeed/quote request: {exchange_type: [security_id]}
QuoteRequest(exchange, security_id) ==
    [endpoint |-> "/v2/marketfeed/quote", exchange |-> exchange,
     securityId |-> security_id]

\* What the inner try of get_quotes (lines 350-405) and of get_depth (lines
\* 431-515) makes of get_api_response's outcome `out`: `zero` is the all-zero
\* record and `shaped` the record built from a non-empty quote_data.
\* Returns [result, raised], one of them None.
FeedOutcome(out, zero, shaped) ==
    IF out.ok
    THEN [result |-> Some(IF IsEmptyDict(out.response.data) THEN zero ELSE shaped),
          raised |-> None]
    ELSE IF IsSubscriptionError(out.error)
    THEN [result |-> Some([zero EXCEPT !.error = Str(out.error)]),
          raised |-> None]
    ELSE [result |-> None, raised |-> Some(out.error)]

\* get_quotes, lines 339-409
GetQuotes ==
    /\ pc = "idle"
    /\ \E symbol \in Symbols, exchange \in Exchanges :
          /\ call' = [op |-> "get_quotes", symbol |-> symbol, exchange |-> exchange]
          /\ \E security_id \in Tokens :
              /\ lookups' = <<security_id>>
              /\ IF security_id = None
                THEN /\ raised' = Some(Wrap("get_quotes", QuotesContext, IntOfNone))
                     /\ UNCHANGED <<requests, quote_reply, result>>
                ELSE \E reply \in RepliesFor(has_client_id,
                                             QuoteReplies \cup FailReplies) :
                       LET out == GetApiResponse(has_client_id, reply)
                           got == FeedOutcome(out, ZeroQuote,
                                       IF out.ok THEN QuoteOf(out.response.data)
                                       ELSE ZeroQuote)
                       IN  /\ requests' =
                                  IF out.sent
                                  THEN Append(requests,
                                              QuoteRequest(exchange, Val(security_id)))
                                  ELSE requests
                           /\ quote_reply' = IF out.sent THEN Some(reply) ELSE None
                           /\ result' = got.result
                           /\ raised' =
                                  IF got.raised = None THEN None
                                  ELSE Some(Wrap("get_quotes", QuotesContext,
                                                 Val(got.raised)))
    /\ pc' = "done"
    /\ UNCHANGED <<env, loc, chunk_log, all_candles>>

\* get_depth, lines 420-519
GetDepth ==
    /\ pc = "idle"
    /\ \E symbol \in Symbols, exchange \in Exchanges :
          /\ call' = [op |-> "get_depth", symbol |-> symbol, exchange |-> exchange]
          /\ \E security_id \in Tokens :
              /\ lookups' = <<security_id>>
              /\ IF security_id = None
                THEN /\ raised' = Some(Wrap("get_depth", DepthContext, IntOfNone))
                     /\ UNCHANGED <<requests, quote_reply, result>>
                ELSE \E reply \in RepliesFor(has_client_id,
                                             QuoteReplies \cup FailReplies) :
                       LET out == GetApiResponse(has_client_id, reply)
                           got == FeedOutcome(out, ZeroDepth,
                                       IF out.ok THEN DepthOf(out.response.data)
                                       ELSE ZeroDepth)
                       IN  /\ requests' =
                                  IF out.sent
                                  THEN Append(requests,
                                              QuoteRequest(exchange, Val(security_id)))
                                  ELSE requests
                           /\ quote_reply' = IF out.sent THEN Some(reply) ELSE None
                           /\ result' = got.result
                           /\ raised' =
                                  IF got.raised = None THEN None
                                  ELSE Some(Wrap("get_depth", DepthContext,
                                                 Val(got.raised)))
    /\ pc' = "done"
    /\ UNCHANGED <<env, loc, chunk_log, all_candles>>

\* ------------------------------------------------- helpers called directly

CallGetIntradayChunks ==
    /\ pc = "idle"
    /\ \E pair \in SpanPairs :
          /\ call' = [op |-> "_get_intraday_chunks",
                      start_date |-> pair[1], end_date |-> pair[2]]
          /\ result' = Some(GetIntradayChunks(pair[1], pair[2]))
    /\ pc' = "done"
    /\ UNCHANGED <<env, lookups, requests, quote_reply, loc, chunk_log,
                   all_candles, raised>>

CallConvertDateToUtc ==
    /\ pc = "idle"
    /\ \E d \in RoundTripDates :
          /\ call' = [op |-> "_convert_date_to_utc", date_str |-> d]
          /\ result' = Some(ConvertDateToUtc(d))
    /\ pc' = "done"
    /\ UNCHANGED <<env, lookups, requests, quote_reply, loc, chunk_log,
                   all_candles, raised>>

CallConvertTimestampToIst ==
    /\ pc = "idle"
    /\ \E timestamp \in TsSet :
          /\ call' = [op |-> "_convert_timestamp_to_ist", timestamp |-> timestamp]
          /\ result' = Some(ConvertTimestampToIst(timestamp, host_offset))
    /\ pc' = "done"
    /\ UNCHANGED <<env, lookups, requests, quote_reply, loc, chunk_log,
                   all_candles, raised>>

Next ==
    \/ HistCall
    \/ HistValidate
    \/ HistResolve
    \/ HistDaily
    \/ HistChunk
    \/ HistReturn
    \/ GetQuotes
    \/ GetDepth
    \/ CallGetIntradayChunks
    \/ CallConvertDateToUtc
    \/ CallConvertTimestampToIst

Spec == Init /\ [][Next]_vars

\* ================================================================ claims

StrictlyAscending(rows) == \A i \in 1..(Len(rows) - 1) : rows[i] < rows[i + 1]

Returned(op) == pc = "done" /\ call.op = op /\ result # None

HistoryOp == call.op = "get_history"

\* C1: whatever the broker answered (chunks that overlap, candles out of
\* order), the series get_history returns has strictly ascending timestamps,
\* hence no timestamp twice, for every supported interval.
C1_HistoryStrictlyAscending ==
    Returned("get_history") => StrictlyAscending(Val(result).rows)

\* C1 witness: an intraday call of two chunks whose responses were out of
\* order and repeated each other's timestamps, returned as two rows.
C1_Witness ==
    /\ Returned("get_history")
    /\ call.interval = "5m"
    /\ Len(chunk_log) = 2
    /\ Len(all_candles) = 4
    /\ all_candles[1] > all_candles[2]
    /\ all_candles[3] = all_candles[1]
    /\ Len(Val(result).rows) = 2

SameWeekend(a, b) ==
    /\ ~IsTradingDay(a)
    /\ ~IsTradingDay(b)
    /\ Strptime(a).ord - Strptime(b).ord \in {0 - 1, 0, 1}

\* C2: a get_history call with a supported interval whose start and end fall
\* on days of the same weekend sends nothing to the broker, raises nothing
\* and returns the empty series with the six declared columns.  Stated for
\* the calls nothing else can fail: the client identifier is configured, the
\* exchange is mapped and no token lookup came back empty.
C2_WeekendReturnsEmpty ==
    (HistoryOp /\ call.interval \in TimeframeKeys
       /\ SameWeekend(call.start_date, call.end_date)
       /\ has_client_id
       /\ call.exchange \in ExchangeMapKeys
       /\ lookups # <<None>>)
    => /\ requests = <<>>
       /\ raised = None
       /\ (pc = "done" => result = Some(EmptyFrame))

\* calendar days an inclusive (start, end) chunk covers
ChunkDays(chunk) == Strptime(chunk[2]).ord - Strptime(chunk[1]).ord + 1

ChunksOp == pc = "done" /\ call.op = "_get_intraday_chunks"

\* C3: every chunk of _get_intraday_chunks covers at most 5 calendar days
\* (start and end inclusive), every chunk but the last exactly 5, and a range
\* of 13 days gives 3 chunks of 5, 5 and 3 days.
C3_ChunksAtMostFiveDays ==
    ChunksOp =>
        LET chunks == Val(result)
            range_days == Strptime(call.end_date).ord
                          - Strptime(call.start_date).ord + 1
        IN  /\ \A i \in 1..Len(chunks) : ChunkDays(chunks[i]) <= 5
            /\ \A i \in 1..(Len(chunks) - 1) : ChunkDays(chunks[i]) = 5
            /\ range_days = 13 =>
                  /\ Len(chunks) = 3
                  /\ ChunkDays(chunks[1]) = 5
                  /\ ChunkDays(chunks[2]) = 5
                  /\ ChunkDays(chunks[3]) = 3

FeedOp == pc = "done" /\ call.op \in {"get_quotes", "get_depth"}

\* the broker answered the market-feed request with a failure envelope
FeedFailed ==
    /\ FeedOp
    /\ quote_reply # None
    /\ Val(quote_reply).status = "failed"

\* code and message of the failure envelope received
FailedCode ==
    IF Len(Val(quote_reply).data) > 0 THEN Val(quote_reply).data[1][1] ELSE "unknown"
FailedMessage ==
    IF Len(Val(quote_reply).data) > 0 THEN Val(quote_reply).data[1][2] ELSE <<>>

AllZeroNumbers(r) ==
    /\ r.ltp = 0 /\ r.open = 0 /\ r.high = 0 /\ r.low = 0 /\ r.volume = 0
    /\ r.prev_close = 0
    /\ IF call.op = "get_quotes"
       THEN r.bid = 0 /\ r.ask = 0
       ELSE /\ r.ltq = 0 /\ r.oi = 0 /\ r.totalbuyqty = 0 /\ r.totalsellqty = 0
            /\ r.bids = [i \in 1..5 |-> [price |-> 0, quantity |-> 0]]
            /\ r.asks = [i \in 1..5 |-> [price |-> 0, quantity |-> 0]]

\* C4: on a failure envelope with a subscription code of the table (806, 820,
\* 821) get_quotes and get_depth do not raise; they return the all-zero
\* record with a non-empty error string.
C4_SubscriptionCodesSwallowed ==
    (FeedFailed /\ FailedCode \in {"806", "820", "821"})
    => /\ raised = None
       /\ result # None
       /\ AllZeroNumbers(Val(result))
       /\ Val(result).error # <<>>

\* the levels the broker supplied on each side (none on the no-data and
\* error paths)
SuppliedBook ==
    IF quote_reply # None /\ Val(quote_reply).status = "success"
       /\ Val(quote_reply).data.depth # Missing
    THEN Val(Val(quote_reply).data.depth)
    ELSE [buy |-> <<>>, sell |-> <<>>]

FirstFive(levels, supplied) ==
    /\ Len(levels) = 5
    /\ \A i \in 1..5 :
          levels[i] = IF i <= Len(supplied) THEN supplied[i]
                      ELSE [price |-> 0, quantity |-> 0]

\* C5: every result of get_depth has exactly 5 bids and 5 asks: the broker's
\* first five levels in order, {price 0, quantity 0} where it supplied fewer.
C5_DepthAlwaysFiveLevels ==
    Returned("get_depth") =>
        /\ FirstFive(Val(result).bids, SuppliedBook.buy)
        /\ FirstFive(Val(result).asks, SuppliedBook.sell)

\* C5 witness: the broker supplied more than five bids and fewer than five asks.
C5_Witness ==
    /\ Returned("get_depth")
    /\ Len(SuppliedBook.buy) > 5
    /\ Len(SuppliedBook.sell) = 3
    /\ Val(result).bids[5].quantity > 0
    /\ Val(result).asks[4].quantity = 0

\* the way back: the UTC date at the anchored time of day (15:30 less the
\* offset), plus the fixed offset, as a calendar date
BackToLocalDate(utc_date) ==
    LET anchored == AddMinutes(Strptime(utc_date), 15 * 60 + 30 - IstOffsetMinutes)
    IN  Strftime(AddMinutes(anchored, IstOffsetMinutes))

\* C6: the date _convert_date_to_utc produces, taken back by adding the fixed
\* offset to the anchored instant, is the calendar date it was given.
C6_DateRoundTrip ==
    (pc = "done" /\ call.op = "_convert_date_to_utc")
    => BackToLocalDate(Val(result)) = call.date_str

\* C6 witness: the conversion was applied to the first day of a year.
C6_Witness ==
    /\ pc = "done"
    /\ call.op = "_convert_date_to_utc"
    /\ call.date_str = [year |-> 2024, month |-> 1, day |-> 1]
    /\ result # None

RaisedAt(site) == raised # None /\ Val(Val(raised).cause).site = site

SixIntervals == {"1m", "5m", "15m", "25m", "1h", "D"}

\* C7: get_history checks interval, then token, then exchange, and contacts
\* the broker only when all three passed: an unsupported interval raises an
\* error naming the six supported ones before any token lookup; an absent
\* token raises next; an unmapped exchange raises last.
C7_ValidationOrder ==
    HistoryOp =>
        /\ call.interval \notin SixIntervals =>
              /\ lookups = <<>>
              /\ requests = <<>>
              /\ pc = "done" =>
                    /\ RaisedAt("interval")
                    /\ \A t \in SixIntervals : Contains(Str(Val(raised)), <<t>>)
        /\ (call.interval \in SixIntervals /\ lookups = <<None>>) =>
              /\ requests = <<>>
              /\ RaisedAt("token")
        /\ (call.interval \in SixIntervals /\ Len(lookups) = 1
              /\ lookups # <<None>> /\ call.exchange \notin {"NSE", "BSE", "NFO", "MCX"}) =>
              /\ requests = <<>>
              /\ RaisedAt("exchange")
        /\ requests # <<>> =>
              /\ call.interval \in SixIntervals
              /\ Len(lookups) = 1
              /\ lookups # <<None>>
              /\ call.exchange \in {"NSE", "BSE", "NFO", "MCX"}

\* C7 witness: interval and token passed, the exchange check raised.
C7_Witness ==
    /\ HistoryOp
    /\ pc = "done"
    /\ RaisedAt("exchange")
    /\ call.interval = "15m"
    /\ Len(lookups) = 1
    /\ requests = <<>>

OkChunks == {i \in 1..Len(chunk_log) : chunk_log[i].outcome = "ok"}

\* the local timestamps of the candles the successful chunks carried
OkChunkTimestamps ==
    UNION {{ConvertTimestampToIst(chunk_log[i].timestamp[k], host_offset) :
               k \in 1..Len(chunk_log[i].timestamp)} : i \in OkChunks}

\* C8: in a sub-daily get_history call with at least one successful chunk, a
\* failed chunk does not make the call raise: every chunk was requested, in
\* order, and the series returned holds exactly the candles of the successful
\* chunks, sorted and without duplicates.
C8_FailedChunksSkipped ==
    (HistoryOp /\ pc = "done" /\ OkChunks # {}) =>
        /\ raised = None
        /\ result # None
        /\ Len(chunk_log) = Len(loc.date_chunks)
        /\ Len(requests) = Len(loc.date_chunks)
        /\ \A i \in 1..Len(loc.date_chunks) :
              /\ chunk_log[i].chunk = loc.date_chunks[i]
              /\ requests[i].endpoint = "/v2/charts/intraday"
              /\ requests[i].fromDate = loc.date_chunks[i][1]
        /\ {Val(result).rows[i] : i \in 1..Len(Val(result).rows)} = OkChunkTimestamps
        /\ StrictlyAscending(Val(result).rows)

\* C8 witness: the first chunk failed, the second succeeded with two candles,
\* and the call returned them.
C8_Witness ==
    /\ Returned("get_history")
    /\ Len(chunk_log) = 2
    /\ chunk_log[1].outcome = "error"
    /\ chunk_log[2].outcome = "ok"
    /\ Len(Val(result).rows) = 2

DatesBetween(start_date, end_date) ==
    {Ord2Ymd(n) : n \in Strptime(start_date).ord..Strptime(end_date).ord}

Covers(chunk, d) ==
    /\ Strptime(chunk[1]).ord <= Strptime(d).ord
    /\ Strptime(d).ord <= Strptime(chunk[2]).ord

\* C9: for start <= end the chunks of _get_intraday_chunks cover every date
\* from start to end, a single day (start = end) giving one chunk; so a
\* sub-daily get_history call that passed validation over an adjusted range
\* start <= end has sent at least one request when it returns.
C9_ChunksCoverRange ==
    /\ ChunksOp =>
          /\ \A d \in DatesBetween(call.start_date, call.end_date) :
                \E i \in 1..Len(Val(result)) : Covers(Val(result)[i], d)
          /\ call.start_date = call.end_date => Len(Val(result)) = 1
    /\ (Returned("get_history") /\ call.interval # "D" /\ has_client_id
          /\ Strptime(AdjustDates(call.start_date, call.end_date)[1]).ord
             <= Strptime(AdjustDates(call.start_date, call.end_date)[2]).ord)
       => Len(requests) >= 1

\* broker messages that report a missing subscription under an unlisted code
NotSubscribedMessages == {<<"Instrument", "Not", "Subscribed">>}

\* the failure received is subscription-related: a subscription code of the
\* table, or an unlisted code whose message says so
SubscriptionRelated ==
    \/ FailedCode \in {"806", "820", "821"}
    \/ FailedCode \notin {"810", "401"} /\ FailedMessage \in NotSubscribedMessages

\* C10: on a broker failure that is not subscription-related (810, 401,
\* unlisted codes) get_quotes and get_depth return nothing and raise the
\* broker's error wrapped with their own context; a failure is turned into a
\* zero-valued result only if it is subscription-related.
C10_OtherFailuresPropagate ==
    FeedFailed =>
        /\ ~SubscriptionRelated =>
              /\ result = None
              /\ raised # None
              /\ Val(raised).site = call.op
              /\ Val(Val(raised).cause).site = "api"
              /\ Str(Val(raised)) =
                    (IF call.op = "get_quotes"
                     THEN <<"Error", "fetching", "quotes", ":">>
                     ELSE <<"Error", "fetching", "market", "depth", ":">>)
                    \o Str(Val(Val(raised).cause))
        /\ result # None => SubscriptionRelated

\* C10 witness: the broker failed get_depth's request with code 810 and the
\* call raised.
C10_Witness ==
    /\ FeedFailed
    /\ call.op = "get_depth"
    /\ FailedCode = "810"
    /\ raised # None
    /\ result = None

\* C11: _convert_timestamp_to_ist(ts) is ts + 19800 on every host, whatever
\* its zone offset.
C11_TimestampPlusFixedOffset ==
    (pc = "done" /\ call.op = "_convert_timestamp_to_ist")
    => Val(result) = call.timestamp + 19800

AllChunksFailed ==
    /\ HistoryOp
    /\ pc = "done"
    /\ call.interval # "D"
    /\ chunk_log # <<>>
    /\ \A i \in 1..Len(chunk_log) : chunk_log[i].outcome = "error"

\* C12: a sub-daily get_history call whose chunk requests all failed (a
\* missing client identifier and a rejected credential included) does not
\* raise: it returns the empty series with the six declared columns, the
\* value a call that found no candles returns.
C12_AllChunksFailedReturnsEmpty ==
    AllChunksFailed =>
        /\ raised = None
        /\ Len(chunk_log) = Len(loc.date_chunks)
        /\ result = Some([columns |-> <<"timestamp", "open", "high", "low",
                                        "close", "volume">>,
                          rows |-> <<>>])

\* C12 witness: no client identifier is configured, both chunks of the call
\* failed before anything was sent, and the call returned.
C12_Witness ==
    /\ AllChunksFailed
    /\ ~has_client_id
    /\ Len(chunk_log) = 2
    /\ requests = <<>>
    /\ result # None

====
